---- MODULE Spec2Model ----
(***************************************************************************)
(* The virtual file system of LynkOS (class VirtualFileSystem): a flat     *)
(* IndexedDB object store 'files' keyed by path with an index on parent,   *)
(* and the asynchronous operations built on it.  Every await of a store    *)
(* request is a suspension point; one step of the model is one store       *)
(* transaction together with the synchronous code that follows it.         *)
(*                                                                         *)
(* JavaScript strings that the code takes apart (paths, names, queries)    *)
(* are sequences of one-character strings; file contents, which the code   *)
(* only measures, are TLA+ strings.  The timestamps created/modified are   *)
(* not modelled.                                                           *)
(***************************************************************************)
EXTENDS Integers, Sequences, FiniteSets, TLC

(***************************************************************************)
(* Strings                                                                 *)
(***************************************************************************)

\* The printable ASCII characters in code-unit order (code 32 first); the three
\* that a TLA+ string cannot hold literally are named instead.
Ascii ==
  << " ", "!", "dquote", "#", "$", "%", "&", "'", "(", ")", "*", "+", ",", "-", ".", "/",
     "0", "1", "2", "3", "4", "5", "6", "7", "8", "9", ":", ";", "<", "=", ">", "?",
     "@", "A", "B", "C", "D", "E", "F", "G", "H", "I", "J", "K", "L", "M", "N", "O",
     "P", "Q", "R", "S", "T", "U", "V", "W", "X", "Y", "Z", "[", "backslash", "]", "^", "_",
     "backtick", "a", "b", "c", "d", "e", "f", "g", "h", "i", "j", "k", "l", "m", "n", "o",
     "p", "q", "r", "s", "t", "u", "v", "w", "x", "y", "z", "{", "|", "}", "~" >>

CharCode(c) == 31 + (CHOOSE i \in 1..Len(Ascii) : Ascii[i] = c)

\* String.prototype.toLowerCase, one character.
LowerChar(c) ==
  IF CharCode(c) >= 65 /\ CharCode(c) <= 90 THEN Ascii[CharCode(c) + 32 - 31] ELSE c

\* String.prototype.toLowerCase
ToLowerCase(s) == [i \in 1..Len(s) |-> LowerChar(s[i])]

\* String.prototype.includes
Includes(s, q) ==
  \E i \in 0..(Len(s) - Len(q)) : SubSeq(s, i + 1, i + Len(q)) = q

\* String.prototype.split with a one-character separator.
RECURSIVE Split(_, _)
Split(s, sep) ==
  IF \A i \in 1..Len(s) : s[i] # sep
  THEN << s >>
  ELSE LET k == CHOOSE i \in 1..Len(s) :
                  s[i] = sep /\ \A j \in 1..(i - 1) : s[j] # sep
       IN  << SubSeq(s, 1, k - 1) >> \o Split(SubSeq(s, k + 1, Len(s)), sep)

\* Array.prototype.join with a one-character separator.
RECURSIVE Join(_, _)
Join(parts, sep) ==
  IF Len(parts) = 0 THEN << >>
  ELSE IF Len(parts) = 1 THEN parts[1]
  ELSE parts[1] \o << sep >> \o Join(Tail(parts), sep)

\* Array.prototype.pop: the last element.
Pop(parts) == parts[Len(parts)]

\* String.prototype.slice(0, -n) for n > 0.
SliceOff(s, n) == SubSeq(s, 1, Len(s) - n)

\* Number to string in a template literal: the decimal digits.
RECURSIVE NumStr(_)
NumStr(n) ==
  IF n < 10 THEN << Ascii[n + 17] >>
  ELSE NumStr(n \div 10) \o << Ascii[(n % 10) + 17] >>

\* The order of two strings as IndexedDB keys: by code units, a prefix first.
StrLess(a, b) ==
  LET n == IF Len(a) < Len(b) THEN Len(a) ELSE Len(b)
      differ == { i \in 1..n : a[i] # b[i] }
  IN  IF differ = {} THEN Len(a) < Len(b)
      ELSE LET k == CHOOSE i \in differ : \A j \in differ : i <= j
           IN  CharCode(a[k]) < CharCode(b[k])

\* null where the code holds a string or null (the root's parent).
Null == << "null" >>


(***************************************************************************)
(* Entries and the 'files' object store                                    *)
(***************************************************************************)

\* The content property of a record that has none (a folder).
Undefined == "undefined"

\* One record of the object store 'files'.
Entry(path, name, type, parent, content, size, permissions, owner) ==
  [ path |-> path, name |-> name, type |-> type, parent |-> parent,
    content |-> content, size |-> size, permissions |-> permissions,
    owner |-> owner ]

\* null or undefined where the code holds a record.
NoItem == Entry(Null, Null, "null", Null, Undefined, 0, "", "")

\* `${parent}/${name}`, or `/${name}` under the root.
Slash == << "/" >>

\* Mutant of PathJoin: the root is joined like any other parent.
PathJoinPlain(parent, name) == parent \o Slash \o name

PathJoin(parent, name) ==
  IF parent = Slash THEN Slash \o name ELSE parent \o Slash \o name

\* objectStore.get(path): the record with that key, or nothing.
Has(s, path) == \E e \in s : e.path = path
Get(s, path) == IF Has(s, path) THEN CHOOSE e \in s : e.path = path ELSE NoItem

\* Mutant of AddOk: add behaves like put and accepts a key that is taken.
AddOkAlways(s, obj) == TRUE

\* objectStore.add(obj) succeeds only when no record has obj's key
\* (keyPath 'path'); otherwise the request fails with a ConstraintError.
AddOk(s, obj) == ~ Has(s, obj.path)
StoreAdd(s, obj) == s \cup { obj }

\* objectStore.put(obj) replaces the record with obj's key.
StorePut(s, obj) == { e \in s : e.path # obj.path } \cup { obj }

\* objectStore.delete(path)
StoreDelete(s, path) == { e \in s : e.path # path }

\* Records in the order of their primary keys.
RECURSIVE SortByPath(_)
SortByPath(S) ==
  IF S = {} THEN << >>
  ELSE LET m == CHOOSE x \in S : \A y \in S : ~ StrLess(y.path, x.path)
       IN  << m >> \o SortByPath(S \ { m })

\* Mutant of List: every record below parent, children of children included.
ListBelow(s, parent) ==
  SortByPath({ e \in s : /\ e.parent # Null
                         /\ Len(e.parent) >= Len(parent)
                         /\ SubSeq(e.parent, 1, Len(parent)) = parent })

\* index('parent').getAll(parent): the records whose parent is that key.
List(s, parent) == SortByPath({ e \in s : e.parent = parent })

(***************************************************************************)
(* initializeFileSystem                                                    *)
(***************************************************************************)

Root      == Slash
Users     == << "/", "U", "s", "e", "r", "s" >>
Admin     == Users \o << "/", "A", "d", "m", "i", "n" >>
Desktop   == Admin \o << "/", "D", "e", "s", "k", "t", "o", "p" >>
Documents == Admin \o << "/", "D", "o", "c", "u", "m", "e", "n", "t", "s" >>
Downloads == Admin \o << "/", "D", "o", "w", "n", "l", "o", "a", "d", "s" >>
Pictures  == Admin \o << "/", "P", "i", "c", "t", "u", "r", "e", "s" >>
Music     == Admin \o << "/", "M", "u", "s", "i", "c" >>
Videos    == Admin \o << "/", "V", "i", "d", "e", "o", "s" >>
System    == << "/", "S", "y", "s", "t", "e", "m" >>
Mnt       == << "/", "m", "n", "t" >>

\* The default folder tree: path, parent, owner.
dirs ==
  << << Root, Null, "root" >>,
     << Users, Root, "root" >>,
     << Admin, Users, "admin" >>,
     << Desktop, Admin, "admin" >>,
     << Documents, Admin, "admin" >>,
     << Downloads, Admin, "admin" >>,
     << Pictures, Admin, "admin" >>,
     << Music, Admin, "admin" >>,
     << Videos, Admin, "admin" >>,
     << System, Root, "root" >>,
     << Mnt, Root, "root" >> >>

ReadmeName == << "r", "e", "a", "d", "m", "e", ".", "t", "x", "t" >>
readmePath == Documents \o Slash \o ReadmeName
ReadmeContent ==
  "Welcome to LynkOS v4!\n\nKeyboard Shortcuts (File Manager):\n  Ctrl+C  Copy\n  Ctrl+X  Cut\n  Ctrl+V  Paste\n  Ctrl+A  Select All\n  Del     Delete\n  F2      Rename\n  F5      Refresh\n  Ctrl+N  New Folder\n  Backspace  Go Up\n\nDesktop Shortcuts:\n  Ctrl+S        Save Session\n  Ctrl+Alt+S    Export ZIP\n  Ctrl+Alt+I    Import ZIP\n  Ctrl+A        Notifications\n  Ctrl+Ctrl     Start Menu\n  Ctrl+N        New Folder\n  Ctrl+Alt+N    New File"
ReadmeSize == 500

\* The seed document.
ReadmeEntry ==
  Entry(readmePath, ReadmeName, "file", Documents, ReadmeContent, ReadmeSize,
        "rw-", "admin")

\* path.split('/').pop() || '/'
DirName(path) ==
  LET last == Pop(Split(path, "/")) IN IF last = << >> THEN Slash ELSE last

DirEntry(d) == Entry(d[1], DirName(d[1]), "folder", d[2], Undefined, 0, "rwx", d[3])

\* Mutant of BootPut: the record is written whether or not one is there.
BootPutOverwrite(s, obj) == StorePut(s, obj)

\* put(obj): add obj unless a record is already at its path.
BootPut(s, obj) == IF Has(s, obj.path) THEN s ELSE StoreAdd(s, obj)

RECURSIVE BootDirs(_, _)
BootDirs(s, i) ==
  IF i > Len(dirs) THEN s ELSE BootDirs(BootPut(s, DirEntry(dirs[i])), i + 1)

\* The store after initializeFileSystem has run on store s.
InitializeFileSystem(s) == BootPut(BootDirs(s, 1), ReadmeEntry)


(***************************************************************************)
(* Read-only operations, as functions of the store                         *)
(***************************************************************************)

\* Mutant of DirSize: a folder's stored size is trusted as a cache.
DirSizeTrustCache(s, path) == IF Has(s, path) THEN Get(s, path).size ELSE 0

\* dirSize(path)
RECURSIVE DirSize(_, _)
RECURSIVE DirSizeLoop(_, _, _)
DirSizeLoop(s, ch, i) ==
  IF i > Len(ch) THEN 0 ELSE DirSize(s, ch[i].path) + DirSizeLoop(s, ch, i + 1)
DirSize(s, path) ==
  LET item == Get(s, path)
  IN  IF item = NoItem THEN 0
      ELSE IF item.type = "file" THEN item.size
      ELSE DirSizeLoop(s, List(s, path), 1)

\* search(query, root): walk(p) pushes the matching items of p's listing and
\* descends into each folder in turn.
\* Mutant of Walk: the folders listed are not walked in turn.
WalkFlat(s, query, p) ==
  SelectSeq(List(s, p), LAMBDA it : Includes(ToLowerCase(it.name), ToLowerCase(query)))

RECURSIVE Walk(_, _, _)
RECURSIVE WalkItems(_, _, _, _)
WalkItems(s, query, items, i) ==
  IF i > Len(items) THEN << >>
  ELSE LET it  == items[i]
           hit == IF Includes(ToLowerCase(it.name), ToLowerCase(query))
                  THEN << it >> ELSE << >>
           sub == IF it.type = "folder" THEN Walk(s, query, it.path) ELSE << >>
       IN  hit \o sub \o WalkItems(s, query, items, i + 1)
Walk(s, query, p) == WalkItems(s, query, List(s, p), 1)
Search(s, query, root) == Walk(s, query, root)

(***************************************************************************)
(* State                                                                   *)
(***************************************************************************)

VARIABLES
  store,        \* the records of the object store 'files'
  recentFiles,  \* this.recentFiles
  booted,       \* initializeFileSystem has resolved and the apps hold the vfs
  tasks,        \* the asynchronous calls: one slot per concurrent caller
  budget,       \* the number of calls the callers will still make
  log,          \* the calls that have settled, in order, with their outcome
  favorites,    \* this.favorites, a Set: its paths in insertion order
  meta,         \* the records of the object store 'meta', by key
  saves,        \* the puts of _saveMeta not yet applied, in their order
  phase         \* how far _initDB has come: "opening", "loadFavorites",
                \* "loadRecent", "ready"

vars == << store, recentFiles, booted, tasks, budget, log,
           favorites, meta, saves, phase >>

\* The object store 'meta' holds at most one record per key: none is the
\* empty sequence, a record { key, value } is the sequence of its value.
EmptyMeta == [ favorites |-> << >>, recent |-> << >> ]

\* Bounds of the model.
MaxOps   == 2     \* calls made after bootstrap
MaxDepth == 6     \* frames on one call's stack

\* this.recentFiles is cut to this length.
RecentCap == 20

TaskIds == { 1, 2 }

\* A call: the operation and its arguments.
Call(op, path, dest, name, content) ==
  [ op |-> op, path |-> path, dest |-> dest, name |-> name, content |-> content ]
NoCall == Call("none", << >>, << >>, << >>, "")

\* One activation of delete, copy, move, rename or updateFile, suspended at
\* the store request pc.
Frame(fn, pc, path, dest, name) ==
  [ fn |-> fn, pc |-> pc, path |-> path, dest |-> dest, name |-> name,
    counter |-> 0, newPath |-> << >>, item |-> NoItem, newItem |-> NoItem,
    children |-> << >>, i |-> 0 ]
DeleteFrame(path)     == Frame("delete", "get", path, << >>, << >>)
CopyFrame(path, dest) == Frame("copy", "get", path, dest, << >>)

IdleTask ==
  [ status |-> "idle", call |-> NoCall, stack |-> << >>, result |-> NoItem,
    value |-> 0, items |-> << >>, pre |-> {}, preRecent |-> << >> ]

Init ==
  /\ store = {}
  /\ recentFiles = << >>
  /\ booted = FALSE
  /\ tasks = [ t \in TaskIds |-> IdleTask ]
  /\ budget = MaxOps
  /\ log = << >>
  /\ favorites = << >>
  /\ meta = EmptyMeta
  /\ saves = << >>
  /\ phase = "opening"

Running(t) == tasks[t].status = "run"
Top(t) == Head(tasks[t].stack)
At(t, fn, pc) == Running(t) /\ Top(t).fn = fn /\ Top(t).pc = pc

\* A caller may issue a call when the vfs is ready and its previous call has
\* settled.
CanCall(t) == booted /\ ~ Running(t) /\ budget > 0

\* The slot of a call that starts now.
NewTask(call, stack) ==
  [ status |-> "run", call |-> call, stack |-> stack, result |-> NoItem,
    value |-> 0, items |-> << >>, pre |-> store, preRecent |-> recentFiles ]

\* A frame returns ret to the frames below it, which run on to their next
\* store request (or return in turn).
RECURSIVE Unwind(_, _)
Unwind(stk, ret) ==
  IF stk = << >> THEN [ done |-> TRUE, stack |-> << >>, result |-> ret ]
  ELSE
    LET f == Head(stk)
        rest == Tail(stk)
        goon(frames) == [ done |-> FALSE, stack |-> frames \o rest, result |-> NoItem ]
    IN  CASE f.fn = "delete" ->
               IF f.i < Len(f.children)
               THEN goon(<< DeleteFrame(f.children[f.i + 1].path), [f EXCEPT !.i = f.i + 1] >>)
               ELSE goon(<< [f EXCEPT !.pc = "del"] >>)
          [] f.fn = "copy" ->
               IF f.i < Len(f.children)
               THEN goon(<< CopyFrame(f.children[f.i + 1].path, f.newPath),
                            [f EXCEPT !.i = f.i + 1] >>)
               ELSE Unwind(rest, f.newItem)
          [] f.fn = "move" ->
               IF f.pc = "copy"
               THEN goon(<< DeleteFrame(f.path), [f EXCEPT !.pc = "delete", !.newItem = ret] >>)
               ELSE Unwind(rest, f.newItem)
          [] f.fn = "rename" ->
               goon(<< [f EXCEPT !.pc = "add"] >>)

\* The slot after its top frame has returned ret.
Return(tk, ret) ==
  LET u == Unwind(Tail(tk.stack), ret)
  IN  IF u.done
      THEN [tk EXCEPT !.stack = << >>, !.status = "done", !.result = u.result]
      ELSE [tk EXCEPT !.stack = u.stack]

\* The slot after its top frame has moved on to f.
SetTop(tk, f) == [tk EXCEPT !.stack = << f >> \o Tail(tk.stack)]

\* The slot after its top frame f has called the frame g.
Push(tk, f, g) == [tk EXCEPT !.stack = << g, f >> \o Tail(tk.stack)]

\* A rejected request is not caught anywhere in the class: the call rejects.
Reject(tk) == [tk EXCEPT !.stack = << >>, !.status = "failed"]

\* Every step ends here: slot t becomes tk, and a settled call is logged.
Settle(t, tk) ==
  /\ Len(tk.stack) <= MaxDepth
  /\ tasks' = [tasks EXCEPT ![t] = tk]
  /\ log' = IF tk.status \in { "done", "failed" }
            THEN Append(log, [ call |-> tk.call, status |-> tk.status ])
            ELSE log


(***************************************************************************)
(* Bootstrap, creation, update                                             *)
(***************************************************************************)

\* new Set(value): the members of value in the order of their first occurrence.
RECURSIVE NewSet(_)
NewSet(value) ==
  IF value = << >> THEN << >>
  ELSE LET init == NewSet(SubSeq(value, 1, Len(value) - 1))
           last == value[Len(value)]
       IN  IF \E i \in 1..Len(init) : init[i] = last THEN init
           ELSE Append(init, last)

\* _saveMeta's put({ key, value }) applied to the object store 'meta'.
MetaPut(m, key, value) == [m EXCEPT ![key] = << value >>]

\* _loadFavorites: if (r.result) this.favorites = new Set(r.result.value)
LoadFavorites(m, current) ==
  IF m.favorites = << >> THEN current ELSE NewSet(m.favorites[1])

\* _loadRecent: if (r.result) this.recentFiles = r.result.value || []
LoadRecent(m, current) ==
  IF m.recent = << >> THEN current ELSE m.recent[1]

\* The Desktop's effect: the constructor's _initDB loads the favourites and
\* the recent list, initializeFileSystem() runs in one readwrite
\* transaction, then setVfs.
Bootstrap ==
  /\ ~ booted
  /\ store' = InitializeFileSystem(store)
  /\ booted' = TRUE
  /\ favorites' = LoadFavorites(meta, favorites)
  /\ recentFiles' = LoadRecent(meta, recentFiles)
  /\ phase' = "ready"
  /\ UNCHANGED << tasks, budget, log, meta, saves >>

\* Mutant of Recent: an item already in the list is not taken out.
RecentNoDedupe(list, item) ==
  LET all == << item >> \o list
  IN  SubSeq(all, 1, IF Len(all) < RecentCap THEN Len(all) ELSE RecentCap)

\* addToRecent's new list: item first, then the others, cut to RecentCap.
Recent(list, item) ==
  LET all == << item >> \o SelectSeq(list, LAMBDA f : f.path # item.path)
  IN  SubSeq(all, 1, IF Len(all) < RecentCap THEN Len(all) ELSE RecentCap)

\* The record createFolder builds.
NewFolder(parent, name) ==
  Entry(PathJoin(parent, name), name, "folder", parent, Undefined, 0, "rwx", "admin")

\* The record createFile builds.
NewFile(parent, name, content) ==
  Entry(PathJoin(parent, name), name, "file", parent, content, Len(content),
        "rw-", "admin")

\* createFolder(parent, name)
CreateFolder(t, parent, name) ==
  /\ CanCall(t)
  /\ LET folder == NewFolder(parent, name)
         tk == NewTask(Call("createFolder", << >>, parent, name, ""), << >>)
     IN  IF AddOk(store, folder)
         THEN /\ store' = StoreAdd(store, folder)
              /\ Settle(t, [tk EXCEPT !.status = "done", !.result = folder])
         ELSE /\ store' = store
              /\ Settle(t, Reject(tk))
  /\ budget' = budget - 1
  /\ UNCHANGED << recentFiles, booted, favorites, meta, saves, phase >>

\* Mutant of CreateFile: the file is pushed onto the recent list before the
\* outcome of add is known.
CreateFileRecentFirst(t, parent, name, content) ==
  /\ CanCall(t)
  /\ LET file == NewFile(parent, name, content)
         tk == NewTask(Call("createFile", << >>, parent, name, content), << >>)
     IN  /\ recentFiles' = Recent(recentFiles, file)
         /\ meta' = MetaPut(meta, "recent", Recent(recentFiles, file))
         /\ IF AddOk(store, file)
            THEN /\ store' = StoreAdd(store, file)
                 /\ Settle(t, [tk EXCEPT !.status = "done", !.result = file])
            ELSE /\ store' = store
                 /\ Settle(t, Reject(tk))
  /\ budget' = budget - 1
  /\ UNCHANGED << booted, favorites, saves, phase >>

\* createFile(parent, name, content): on success the file is also pushed
\* onto the recent list, and the list is put under 'recent'.
CreateFile(t, parent, name, content) ==
  /\ CanCall(t)
  /\ LET file == NewFile(parent, name, content)
         tk == NewTask(Call("createFile", << >>, parent, name, content), << >>)
     IN  IF AddOk(store, file)
         THEN /\ store' = StoreAdd(store, file)
              /\ recentFiles' = Recent(recentFiles, file)
              /\ meta' = MetaPut(meta, "recent", Recent(recentFiles, file))
              /\ Settle(t, [tk EXCEPT !.status = "done", !.result = file])
         ELSE /\ store' = store
              /\ recentFiles' = recentFiles
              /\ meta' = meta
              /\ Settle(t, Reject(tk))
  /\ budget' = budget - 1
  /\ UNCHANGED << booted, favorites, saves, phase >>

\* addToRecent(item), as the file manager and the editor call it on opening.
AddToRecent(t, item) ==
  /\ CanCall(t)
  /\ recentFiles' = Recent(recentFiles, item)
  /\ meta' = MetaPut(meta, "recent", Recent(recentFiles, item))
  /\ Settle(t, [NewTask(Call("addToRecent", item.path, << >>, << >>, ""), << >>)
                  EXCEPT !.status = "done", !.result = item])
  /\ budget' = budget - 1
  /\ UNCHANGED << store, booted, favorites, saves, phase >>

\* The editor's saveFile: updateFile(path, { content, size: content.length }).
SaveFile(t, path, content) ==
  /\ CanCall(t)
  /\ Settle(t, NewTask(Call("updateFile", path, << >>, << >>, content),
                       << Frame("updateFile", "get", path, << >>, << >>) >>))
  /\ budget' = budget - 1
  /\ UNCHANGED << store, recentFiles, booted, favorites, meta, saves, phase >>

\* { ...item, ...updates } for the updates saveFile passes.
Merge(item, content) == [item EXCEPT !.content = content, !.size = Len(content)]

\* updateFile: const item = await this.get(path)
UpdateGet(t) ==
  /\ At(t, "updateFile", "get")
  /\ LET f == Top(t)
         item == Get(store, f.path)
     IN  Settle(t, IF item = NoItem
                   THEN Return(tasks[t], NoItem)
                   ELSE SetTop(tasks[t], [f EXCEPT !.pc = "put", !.item = item,
                                 !.newItem = Merge(item, tasks[t].call.content)]))
  /\ UNCHANGED << store, recentFiles, booted, budget,
                  favorites, meta, saves, phase >>

\* updateFile: put(updated)
UpdatePut(t) ==
  /\ At(t, "updateFile", "put")
  /\ store' = StorePut(store, Top(t).newItem)
  /\ Settle(t, Return(tasks[t], Top(t).newItem))
  /\ UNCHANGED << recentFiles, booted, budget, favorites, meta, saves, phase >>

(***************************************************************************)
(* delete                                                                  *)
(***************************************************************************)

Delete(t, path) ==
  /\ CanCall(t)
  /\ Settle(t, NewTask(Call("delete", path, << >>, << >>, ""), << DeleteFrame(path) >>))
  /\ budget' = budget - 1
  /\ UNCHANGED << store, recentFiles, booted, favorites, meta, saves, phase >>

\* Mutant of DeleteGet: a folder is removed without its children.
DeleteGetNoRecurse(t) ==
  /\ At(t, "delete", "get")
  /\ LET f == Top(t)
         item == Get(store, f.path)
     IN  Settle(t, IF item = NoItem THEN Return(tasks[t], NoItem)
                   ELSE SetTop(tasks[t], [f EXCEPT !.pc = "del", !.item = item]))
  /\ UNCHANGED << store, recentFiles, booted, budget,
                  favorites, meta, saves, phase >>

\* Mutant of DeleteGet: a missing path is an error.
DeleteGetThrows(t) ==
  /\ At(t, "delete", "get")
  /\ LET f == Top(t)
         item == Get(store, f.path)
     IN  Settle(t, IF item = NoItem THEN Reject(tasks[t])
                   ELSE IF item.type = "folder"
                   THEN SetTop(tasks[t], [f EXCEPT !.pc = "list", !.item = item])
                   ELSE SetTop(tasks[t], [f EXCEPT !.pc = "del", !.item = item]))
  /\ UNCHANGED << store, recentFiles, booted, budget,
                  favorites, meta, saves, phase >>

\* Mutant of DeleteGet: a folder's record is removed before its children.
DeleteGetFolderFirst(t) ==
  /\ At(t, "delete", "get")
  /\ LET f == Top(t)
         item == Get(store, f.path)
     IN  IF item # NoItem /\ item.type = "folder"
         THEN /\ store' = StoreDelete(store, f.path)
              /\ Settle(t, SetTop(tasks[t], [f EXCEPT !.pc = "list", !.item = item]))
         ELSE /\ store' = store
              /\ Settle(t, IF item = NoItem THEN Return(tasks[t], NoItem)
                           ELSE SetTop(tasks[t], [f EXCEPT !.pc = "del", !.item = item]))
  /\ UNCHANGED << recentFiles, booted, budget, favorites, meta, saves, phase >>

\* const item = await this.get(path); if (!item) return;
DeleteGet(t) ==
  /\ At(t, "delete", "get")
  /\ LET f == Top(t)
         item == Get(store, f.path)
     IN  Settle(t, IF item = NoItem THEN Return(tasks[t], NoItem)
                   ELSE IF item.type = "folder"
                   THEN SetTop(tasks[t], [f EXCEPT !.pc = "list", !.item = item])
                   ELSE SetTop(tasks[t], [f EXCEPT !.pc = "del", !.item = item]))
  /\ UNCHANGED << store, recentFiles, booted, budget,
                  favorites, meta, saves, phase >>

\* const children = await this.list(path); then delete(c.path) for the first.
DeleteList(t) ==
  /\ At(t, "delete", "list")
  /\ LET f == Top(t)
         children == List(store, f.path)
     IN  Settle(t, IF children = << >>
                   THEN SetTop(tasks[t], [f EXCEPT !.pc = "del"])
                   ELSE Push(tasks[t], [f EXCEPT !.pc = "loop", !.children = children, !.i = 1],
                             DeleteFrame(children[1].path)))
  /\ UNCHANGED << store, recentFiles, booted, budget,
                  favorites, meta, saves, phase >>

\* objectStore.delete(path), and return.
DeleteDel(t) ==
  /\ At(t, "delete", "del")
  /\ store' = StoreDelete(store, Top(t).path)
  /\ Settle(t, Return(tasks[t], NoItem))
  /\ UNCHANGED << recentFiles, booted, budget, favorites, meta, saves, phase >>

\* objectStore.delete(path) fails (the transaction aborts): r.onerror rejects,
\* and no caller catches it.
DeleteDelFails(t) ==
  /\ At(t, "delete", "del")
  /\ Settle(t, Reject(tasks[t]))
  /\ UNCHANGED << store, recentFiles, booted, budget,
                  favorites, meta, saves, phase >>

(***************************************************************************)
(* copy, move, rename                                                      *)
(***************************************************************************)

\* Mutant of CopyName: the counter is appended after the extension.
CopyNameAfterExt(name, counter) ==
  name \o << " ", "(" >> \o NumStr(counter) \o << ")" >>

\* The next candidate name of copy's collision loop.
CopyExt(name) == IF Includes(name, << "." >>) THEN << "." >> \o Pop(Split(name, ".")) ELSE << >>
CopyBase(name) == IF CopyExt(name) # << >> THEN SliceOff(name, Len(CopyExt(name))) ELSE name
CopyName(name, counter) ==
  CopyBase(name) \o << " ", "(" >> \o NumStr(counter) \o << ")" >> \o CopyExt(name)

\* The record copy inserts.
CopyItem(src, newPath, name, destParent) ==
  [src EXCEPT !.path = newPath, !.name = name, !.parent = destParent]

Copy(t, srcPath, destParent) ==
  /\ CanCall(t)
  /\ Settle(t, NewTask(Call("copy", srcPath, destParent, << >>, ""),
                       << CopyFrame(srcPath, destParent) >>))
  /\ budget' = budget - 1
  /\ UNCHANGED << store, recentFiles, booted, favorites, meta, saves, phase >>

\* const src = await this.get(srcPath); if (!src) return null;
CopyGet(t) ==
  /\ At(t, "copy", "get")
  /\ LET f == Top(t)
         src == Get(store, f.path)
     IN  Settle(t, IF src = NoItem THEN Return(tasks[t], NoItem)
                   ELSE SetTop(tasks[t], [f EXCEPT !.pc = "probe", !.item = src,
                                 !.name = src.name, !.counter = 1,
                                 !.newPath = PathJoin(f.dest, src.name)]))
  /\ UNCHANGED << store, recentFiles, booted, budget,
                  favorites, meta, saves, phase >>

\* while (await this.get(newPath)) { ... }
CopyProbe(t) ==
  /\ At(t, "copy", "probe")
  /\ LET f == Top(t)
         name == CopyName(f.name, f.counter)
     IN  Settle(t, IF Has(store, f.newPath)
                   THEN SetTop(tasks[t], [f EXCEPT !.name = name, !.counter = f.counter + 1,
                                 !.newPath = PathJoin(f.dest, name)])
                   ELSE SetTop(tasks[t], [f EXCEPT !.pc = "add",
                                 !.newItem = CopyItem(f.item, f.newPath, f.name, f.dest)]))
  /\ UNCHANGED << store, recentFiles, booted, budget,
                  favorites, meta, saves, phase >>

\* add(newItem); a file's copy returns here.
CopyAdd(t) ==
  /\ At(t, "copy", "add")
  /\ LET f == Top(t)
     IN  IF AddOk(store, f.newItem)
         THEN /\ store' = StoreAdd(store, f.newItem)
              /\ Settle(t, IF f.item.type = "folder"
                           THEN SetTop(tasks[t], [f EXCEPT !.pc = "list"])
                           ELSE Return(tasks[t], f.newItem))
         ELSE /\ store' = store
              /\ Settle(t, Reject(tasks[t]))
  /\ UNCHANGED << recentFiles, booted, budget, favorites, meta, saves, phase >>

\* const children = await this.list(srcPath); then copy(c.path, newPath).
CopyList(t) ==
  /\ At(t, "copy", "list")
  /\ LET f == Top(t)
         children == List(store, f.path)
     IN  Settle(t, IF children = << >>
                   THEN Return(tasks[t], f.newItem)
                   ELSE Push(tasks[t], [f EXCEPT !.pc = "loop", !.children = children, !.i = 1],
                             CopyFrame(children[1].path, f.newPath)))
  /\ UNCHANGED << store, recentFiles, booted, budget,
                  favorites, meta, saves, phase >>

\* Mutant of Move: the source is not deleted.
MoveCopyOnly(t, srcPath, destParent) ==
  /\ CanCall(t)
  /\ Settle(t, NewTask(Call("move", srcPath, destParent, << >>, ""),
                       << CopyFrame(srcPath, destParent) >>))
  /\ budget' = budget - 1
  /\ UNCHANGED << store, recentFiles, booted, favorites, meta, saves, phase >>

\* Mutant of Move: the source is deleted without having been copied.
MoveDeleteFirst(t, srcPath, destParent) ==
  /\ CanCall(t)
  /\ Settle(t, NewTask(Call("move", srcPath, destParent, << >>, ""),
                       << DeleteFrame(srcPath),
                          Frame("move", "delete", srcPath, destParent, << >>) >>))
  /\ budget' = budget - 1
  /\ UNCHANGED << store, recentFiles, booted, favorites, meta, saves, phase >>

\* move(srcPath, destParent): copy, then delete, then return what copy returned.
Move(t, srcPath, destParent) ==
  /\ CanCall(t)
  /\ Settle(t, NewTask(Call("move", srcPath, destParent, << >>, ""),
                       << CopyFrame(srcPath, destParent),
                          Frame("move", "copy", srcPath, destParent, << >>) >>))
  /\ budget' = budget - 1
  /\ UNCHANGED << store, recentFiles, booted, favorites, meta, saves, phase >>

Rename(t, oldPath, newName) ==
  /\ CanCall(t)
  /\ Settle(t, NewTask(Call("rename", oldPath, << >>, newName, ""),
                       << Frame("rename", "get", oldPath, << >>, newName) >>))
  /\ budget' = budget - 1
  /\ UNCHANGED << store, recentFiles, booted, favorites, meta, saves, phase >>

\* oldPath with its last segment replaced by newName.
RenamePath(oldPath, newName) ==
  LET parts == Split(oldPath, "/")
  IN  Join([parts EXCEPT ![Len(parts)] = newName], "/")

\* const item = await this.get(oldPath); if (!item) return null;
\* then delete(oldPath) is called.
RenameGet(t) ==
  /\ At(t, "rename", "get")
  /\ LET f == Top(t)
         item == Get(store, f.path)
     IN  Settle(t, IF item = NoItem THEN Return(tasks[t], NoItem)
                   ELSE Push(tasks[t],
                             [f EXCEPT !.pc = "delete", !.item = item,
                                !.newPath = RenamePath(f.path, f.name),
                                !.newItem = [item EXCEPT !.path = RenamePath(f.path, f.name),
                                                         !.name = f.name]],
                             DeleteFrame(f.path)))
  /\ UNCHANGED << store, recentFiles, booted, budget,
                  favorites, meta, saves, phase >>

\* add(newItem)
RenameAdd(t) ==
  /\ At(t, "rename", "add")
  /\ LET f == Top(t)
     IN  IF AddOk(store, f.newItem)
         THEN /\ store' = StoreAdd(store, f.newItem)
              /\ Settle(t, Return(tasks[t], f.newItem))
         ELSE /\ store' = store
              /\ Settle(t, Reject(tasks[t]))
  /\ UNCHANGED << recentFiles, booted, budget, favorites, meta, saves, phase >>

(***************************************************************************)
(* list, get, search, dirSize as calls                                     *)
(***************************************************************************)

ReadTask(call) == [NewTask(call, << >>) EXCEPT !.status = "done"]

ListOp(t, parent) ==
  /\ CanCall(t)
  /\ Settle(t, [ReadTask(Call("list", parent, << >>, << >>, "")) EXCEPT
                  !.items = List(store, parent)])
  /\ budget' = budget - 1
  /\ UNCHANGED << store, recentFiles, booted, favorites, meta, saves, phase >>

GetOp(t, path) ==
  /\ CanCall(t)
  /\ Settle(t, [ReadTask(Call("get", path, << >>, << >>, "")) EXCEPT
                  !.result = Get(store, path)])
  /\ budget' = budget - 1
  /\ UNCHANGED << store, recentFiles, booted, favorites, meta, saves, phase >>

SearchOp(t, query, root) ==
  /\ CanCall(t)
  /\ Settle(t, [ReadTask(Call("search", root, << >>, query, "")) EXCEPT
                  !.items = Search(store, query, root)])
  /\ budget' = budget - 1
  /\ UNCHANGED << store, recentFiles, booted, favorites, meta, saves, phase >>

DirSizeOp(t, path) ==
  /\ CanCall(t)
  /\ Settle(t, [ReadTask(Call("dirSize", path, << >>, << >>, "")) EXCEPT
                  !.value = DirSize(store, path)])
  /\ budget' = budget - 1
  /\ UNCHANGED << store, recentFiles, booted, favorites, meta, saves, phase >>

(***************************************************************************)
(* Specification: one caller, each call awaited before the next            *)
(***************************************************************************)

NameA  == << "a" >>
NameNT == << "n", ".", "t" >>
Names == { NameA, NameNT }
Contents == { "", "hi" }
Queries == { << >>, << "A" >> }

\* The paths the seeded tree holds, and the paths the calls are given: some
\* of the seeded ones and whatever the calls have created.
BootPaths == { e.path : e \in InitializeFileSystem({}) }
FixedPaths == { Root, Mnt, Documents, readmePath }
ArgPaths == FixedPaths \cup ({ e.path : e \in store } \ BootPaths)
\* The file manager lists, and so selects, only entries that have a parent.
SrcPaths == ArgPaths \ { Root }
Files == { e \in store : e.type = "file" }

Steps(t) ==
  \/ UpdateGet(t) \/ UpdatePut(t)
  \/ DeleteGet(t) \/ DeleteList(t) \/ DeleteDel(t)
  \/ CopyGet(t) \/ CopyProbe(t) \/ CopyAdd(t) \/ CopyList(t)
  \/ RenameGet(t) \/ RenameAdd(t)

Next ==
  \/ Bootstrap
  \/ \E p \in ArgPaths, n \in Names : CreateFolder(1, p, n)
  \/ \E p \in ArgPaths, n \in Names, c \in Contents : CreateFile(1, p, n, c)
  \/ \E p \in ArgPaths, c \in Contents : SaveFile(1, p, c)
  \/ \E p \in ArgPaths : Delete(1, p)
  \/ \E p \in SrcPaths, n \in Names : Rename(1, p, n)
  \/ \E p \in SrcPaths, d \in ArgPaths : Copy(1, p, d)
  \/ \E p \in SrcPaths, d \in ArgPaths : Move(1, p, d)
  \/ \E f \in Files : AddToRecent(1, f)
  \/ \E p \in ArgPaths : ListOp(1, p)
  \/ \E p \in ArgPaths : GetOp(1, p)
  \/ \E p \in ArgPaths, q \in Queries : SearchOp(1, q, p)
  \/ \E p \in ArgPaths : DirSizeOp(1, p)
  \/ Steps(1)

Spec == Init /\ [][Next]_vars


(***************************************************************************)
(* Specification: two callers whose calls interleave at the store requests *)
(***************************************************************************)

\* What the two callers work on: the seeded document, the folder /mnt and
\* whatever they have created.
Made == { e.path : e \in store } \ BootPaths
SharedSrc == { readmePath } \cup Made
SharedNames == { ReadmeName, NameA }

\* The second caller is the one that calls second.
MayCall(t) == t = 1 \/ tasks[1].status # "idle"

NextI ==
  \/ Bootstrap
  \/ \E t \in TaskIds, n \in SharedNames : MayCall(t) /\ CreateFolder(t, Mnt, n)
  \/ \E t \in TaskIds, n \in SharedNames : MayCall(t) /\ CreateFile(t, Mnt, n, "")
  \/ \E t \in TaskIds, p \in SharedSrc, c \in Contents : MayCall(t) /\ SaveFile(t, p, c)
  \/ \E t \in TaskIds, p \in SharedSrc \cup { Mnt } : MayCall(t) /\ Delete(t, p)
  \/ \E t \in TaskIds, p \in SharedSrc, n \in SharedNames : MayCall(t) /\ Rename(t, p, n)
  \/ \E t \in TaskIds, p \in SharedSrc : MayCall(t) /\ Copy(t, p, Mnt)
  \/ \E t \in TaskIds, p \in SharedSrc : MayCall(t) /\ Move(t, p, Mnt)
  \/ \E t \in TaskIds : Steps(t)

SpecI == Init /\ [][NextI]_vars

(***************************************************************************)
(* Vocabulary of the properties                                            *)
(***************************************************************************)

\* No call is in flight.
Quiet == \A t \in TaskIds : ~ Running(t)

\* Call op of slot t has resolved.
Done(t, op) == tasks[t].status = "done" /\ tasks[t].call.op = op

\* Call op of slot t has resolved or rejected.
Settled(t, op) == tasks[t].status \in { "done", "failed" } /\ tasks[t].call.op = op

\* The entries of s contained in the entries of acc: a folder contains the
\* entries whose parent is its path, and what those contain in turn.
RECURSIVE Closure(_, _)
Closure(s, acc) ==
  LET more == { e \in s : \E f \in acc : f.type = "folder" /\ e.parent = f.path }
  IN  IF more \subseteq acc THEN acc ELSE Closure(s, acc \cup more)

\* The entry at path p together with everything transitively under it.
Subtree(s, p) == IF Has(s, p) THEN Closure(s, { Get(s, p) }) ELSE {}

PathsOf(S) == { e.path : e \in S }

\* The entries of a sequence, as a set.
Range(seq) == { seq[i] : i \in 1..Len(seq) }

RECURSIVE SumSize(_)
SumSize(S) ==
  IF S = {} THEN 0
  ELSE LET e == CHOOSE x \in S : TRUE IN e.size + SumSize(S \ { e })

\* name with suffix put in before its extension: before the last '.', or at
\* the end of a name that has none.
BeforeExt(name, suffix) ==
  IF \E i \in 1..Len(name) : name[i] = "."
  THEN LET k == CHOOSE i \in 1..Len(name) :
                  name[i] = "." /\ \A j \in (i + 1)..Len(name) : name[j] # "."
       IN  SubSeq(name, 1, k - 1) \o suffix \o SubSeq(name, k, Len(name))
  ELSE name \o suffix
Suffix1 == << " ", "(", "1", ")" >>

(***************************************************************************)
(* Properties                                                              *)
(***************************************************************************)

\* C1: in every state, whatever calls have run and however their store
\* requests interleaved, no two entries of the store have the same path.
C1_PathUnique ==
  \A e1, e2 \in store : e1.path = e2.path => e1 = e2

\* Two copies of the same entry into the same folder overlapped: both started
\* on the same store, one put its entry where the other then tried to.
C1_Witness ==
  /\ Done(1, "copy") /\ tasks[2].call = tasks[1].call
  /\ tasks[2].status = "failed"
  /\ tasks[2].pre = tasks[1].pre
  /\ tasks[1].result \in store

\* C2: createFolder or createFile whose computed path already holds an entry
\* fails, and leaves the store and the recent-files list as they were.
C2_DuplicateCreateFails ==
  \A t \in TaskIds :
    ( /\ Settled(t, "createFolder") \/ Settled(t, "createFile")
      /\ Has(tasks[t].pre, PathJoin(tasks[t].call.dest, tasks[t].call.name)) )
    => /\ tasks[t].status = "failed"
       /\ store = tasks[t].pre
       /\ recentFiles = tasks[t].preRecent

\* A createFile on a path that holds an entry has settled, with a file in the
\* recent list.
C2_Witness ==
  /\ Settled(1, "createFile")
  /\ Has(tasks[1].pre, PathJoin(tasks[1].call.dest, tasks[1].call.name))
  /\ tasks[1].preRecent # << >>

C4_DeleteIdempotent ==
  \A t \in TaskIds :
    Settled(t, "delete") =>
      /\ tasks[t].status = "done"
      /\ ~ Has(store, tasks[t].call.path)
      /\ ~ Has(tasks[t].pre, tasks[t].call.path) => store = tasks[t].pre
      /\ ( /\ Len(log) >= 2
           /\ log[Len(log) - 1].call = tasks[t].call ) => store = tasks[t].pre

\* The second of two deletes of a path that held a seeded entry has settled.
C4_Witness ==
  /\ Settled(1, "delete")
  /\ Len(log) = 2
  /\ log[1].call = tasks[1].call
  /\ log[1].status = "done"
  /\ tasks[1].call.path \in BootPaths

CopyResolved(t, name) ==
  LET src == Get(tasks[t].pre, tasks[t].call.path)
      r == tasks[t].result
  IN  /\ r.name = name
      /\ r.path = PathJoin(tasks[t].call.dest, name)
      /\ r.path # src.path
      /\ r.path # PathJoin(tasks[t].call.dest, src.name)
      /\ ~ Has(tasks[t].pre, r.path)
      /\ r \in store
      /\ r.content = src.content /\ r.size = src.size
      /\ tasks[t].pre \subseteq store

CopyCollides(t) ==
  /\ Done(t, "copy")
  /\ Has(tasks[t].pre, tasks[t].call.path)
  /\ Has(tasks[t].pre, PathJoin(tasks[t].call.dest,
                                Get(tasks[t].pre, tasks[t].call.path).name))

\* C6 as claimed: whenever src's name is taken under destParent, the copy is
\* named with ' (1)' before the extension.
C6_Claimed ==
  \A t \in TaskIds :
    CopyCollides(t) =>
      CopyResolved(t, BeforeExt(Get(tasks[t].pre, tasks[t].call.path).name, Suffix1))

\* C6 amended: the same, when the ' (1)' name is itself free under destParent.
C6_CopyCollision ==
  \A t \in TaskIds :
    ( /\ CopyCollides(t)
      /\ ~ Has(tasks[t].pre,
               PathJoin(tasks[t].call.dest,
                        BeforeExt(Get(tasks[t].pre, tasks[t].call.path).name, Suffix1))) )
    => CopyResolved(t, BeforeExt(Get(tasks[t].pre, tasks[t].call.path).name, Suffix1))

\* A copy of a file with an extension into a folder that held its name, but
\* not its ' (1)' name, has completed.
C6_Witness ==
  /\ CopyCollides(1)
  /\ Get(tasks[1].pre, tasks[1].call.path).type = "file"
  /\ Includes(Get(tasks[1].pre, tasks[1].call.path).name, << "." >>)
  /\ ~ Has(tasks[1].pre,
           PathJoin(tasks[1].call.dest,
                    BeforeExt(Get(tasks[1].pre, tasks[1].call.path).name, Suffix1)))
  /\ tasks[1].call.dest # Get(tasks[1].pre, tasks[1].call.path).parent

\* C7: with no call in flight, every entry that has a parent has it at the
\* path of an existing folder.
C7_ParentsAreFolders ==
  Quiet =>
    \A e \in store :
      e.parent # Null => \E f \in store : f.path = e.parent /\ f.type = "folder"

\* C8: the stored size of every file is the length of its stored content.
C8_SizeIsContentLength ==
  \A e \in store : e.type = "file" => e.size = Len(e.content)

MaxTouch   == 27    \* calls of the session
MaxRetouch == 2     \* addToRecent calls among them

\* The name of the k-th file the session creates.
FileName(k) == << "f" >> \o NumStr(k)

\* A fresh session on a seeded store: nothing persisted for the recent list.
InitRecent ==
  /\ store = InitializeFileSystem({})
  /\ recentFiles = << >>
  /\ booted = TRUE
  /\ tasks = [ t \in TaskIds |-> IdleTask ]
  /\ budget = MaxTouch
  /\ log = << >>
  /\ favorites = << >>
  /\ meta = EmptyMeta
  /\ saves = << >>
  /\ phase = "ready"

Retouches == Cardinality({ i \in 1..Len(log) : log[i].call.op = "addToRecent" })

\* The files the session opens again: the first and the last of the recent
\* list, and any file that is not in it.
Reopened ==
  { f \in Files :
      \/ recentFiles # << >> /\ f.path = recentFiles[1].path
      \/ recentFiles # << >> /\ f.path = recentFiles[Len(recentFiles)].path
      \/ \A i \in 1..Len(recentFiles) : recentFiles[i].path # f.path }

NextRecent ==
  \/ CreateFile(1, Mnt, FileName(Len(log) - Retouches + 1), "")
  \/ \E f \in Reopened : Retouches < MaxRetouch /\ AddToRecent(1, f)

SpecRecent == InitRecent /\ [][NextRecent]_vars

\* The paths touched so far, oldest first: the files created and the items
\* given to addToRecent.
Touched ==
  LET ok == SelectSeq(log, LAMBDA l : l.status = "done"
                                      /\ l.call.op \in { "createFile", "addToRecent" })
  IN  [ i \in 1..Len(ok) |->
          IF ok[i].call.op = "createFile"
          THEN PathJoin(ok[i].call.dest, ok[i].call.name)
          ELSE ok[i].call.path ]

\* The distinct elements of h, the one that occurs last in h first.
RECURSIVE MostRecentFirst(_)
MostRecentFirst(h) ==
  IF h = << >> THEN << >>
  ELSE LET last == h[Len(h)]
       IN  << last >> \o
           MostRecentFirst(SelectSeq(SubSeq(h, 1, Len(h) - 1), LAMBDA x : x # last))

\* C10: the recent list holds at most 20 entries, no path twice, and they
\* are the most recently touched paths, the latest first; once 20 or more
\* distinct files have been touched it holds exactly 20.
C10_RecentBound ==
  LET want == MostRecentFirst(Touched)
  IN  /\ Len(recentFiles) <= 20
      /\ \A i, j \in 1..Len(recentFiles) :
           recentFiles[i].path = recentFiles[j].path => i = j
      /\ Len(recentFiles) = (IF Len(want) < 20 THEN Len(want) ELSE 20)
      /\ \A i \in 1..Len(recentFiles) : recentFiles[i].path = want[i]
      /\ Touched # << >> => recentFiles[1].path = Touched[Len(Touched)]

\* 25 distinct files have been touched, one of them again after it had left
\* the list.
C10_Witness ==
  /\ Cardinality(Range(Touched)) >= 25
  /\ Len(recentFiles) = 20
  /\ \E i \in 1..Len(log) :
       /\ log[i].call.op = "addToRecent"
       /\ Cardinality(Range(SubSeq(Touched, 1, i - 1)) \ { Touched[i] }) >= 21
       /\ \A j \in (i - 20)..(i - 1) : Touched[j] # Touched[i]

(***************************************************************************)
(* Specification: the page is loaded again over the persisted store        *)
(***************************************************************************)

\* A page load after the first: the Desktop mounts, a new VirtualFileSystem
\* runs initializeFileSystem over the store as the last page left it.  The
\* calls of the last page that had not settled are gone, the favourites and
\* the recent list are the ones read from 'meta'.
Reload ==
  /\ booted
  /\ budget > 0
  /\ store' = InitializeFileSystem(store)
  /\ tasks' = [ t \in TaskIds |->
                 IF t = 1
                 THEN ReadTask(Call("initializeFileSystem", << >>, << >>, << >>, ""))
                 ELSE IdleTask ]
  /\ log' = Append(log, [ call |-> Call("initializeFileSystem", << >>, << >>, << >>, ""),
                          status |-> "done" ])
  /\ budget' = budget - 1
  /\ favorites' = LoadFavorites(meta, << >>)
  /\ recentFiles' = LoadRecent(meta, << >>)
  /\ saves' = << >>
  /\ UNCHANGED << booted, meta, phase >>

\* Calls and page loads after the first bootstrap.
MaxBootOps == 3

InitBoot ==
  /\ store = {}
  /\ recentFiles = << >>
  /\ booted = FALSE
  /\ tasks = [ t \in TaskIds |-> IdleTask ]
  /\ budget = MaxBootOps
  /\ log = << >>
  /\ favorites = << >>
  /\ meta = EmptyMeta
  /\ saves = << >>
  /\ phase = "opening"

\* What the user does to the seeded tree between page loads.
SeedPaths == { Documents, readmePath, Mnt, Users }

NextBoot ==
  \/ Bootstrap
  \/ Reload
  \/ \E c \in Contents : SaveFile(1, readmePath, c)
  \/ \E c \in Contents : CreateFile(1, Documents, ReadmeName, c)
  \/ \E n \in Names : CreateFolder(1, Root, n)
  \/ \E p \in SeedPaths : Delete(1, p)
  \/ \E p \in SeedPaths, n \in Names : Rename(1, p, n)
  \/ \E p \in SeedPaths : Move(1, p, Mnt)
  \/ Steps(1)

SpecBoot == InitBoot /\ [][NextBoot]_vars

\* C11: initializeFileSystem run over a store that was bootstrapped before
\* leaves every record it finds as it is, inserts records only at paths that
\* had none, and a further run would change nothing; the seed document, if
\* present, keeps the content it had.
C11_BootstrapIdempotent ==
  Done(1, "initializeFileSystem") =>
    /\ tasks[1].pre \subseteq store
    /\ \A e \in store \ tasks[1].pre : ~ Has(tasks[1].pre, e.path)
    /\ InitializeFileSystem(store) = store
    /\ Has(tasks[1].pre, readmePath) =>
         Get(store, readmePath).content = Get(tasks[1].pre, readmePath).content

\* initializeFileSystem has run over a store in which the user had rewritten
\* the seed document and removed a default folder.
C11_Witness ==
  /\ Done(1, "initializeFileSystem")
  /\ Has(tasks[1].pre, readmePath)
  /\ Get(tasks[1].pre, readmePath).content = "hi"
  /\ ~ Has(tasks[1].pre, Mnt)
  /\ Has(store, Mnt)

\* C12: updateFile on a path that has no entry rejects, and the store is as
\* it was before the call.
C12_UpdateMissingFails ==
  \A t \in TaskIds :
    ( Settled(t, "updateFile") /\ ~ Has(tasks[t].pre, tasks[t].call.path) )
    => ( tasks[t].status = "failed" /\ store = tasks[t].pre )

\* C13: list(p) resolves with the entries whose parent is p, each once and
\* nothing else (nothing at all for a path without children or without
\* entry); and in the store a list call has just read, every entry that has
\* a parent is in the listing of its parent.
C13_ListIsChildren ==
  \A t \in TaskIds :
    Settled(t, "list") =>
      /\ tasks[t].status = "done"
      /\ Range(tasks[t].items) = { e \in tasks[t].pre : e.parent = tasks[t].call.path }
      /\ Len(tasks[t].items) = Cardinality(Range(tasks[t].items))
      /\ \A e \in tasks[t].pre :
           e.parent # Null => e \in Range(List(tasks[t].pre, e.parent))

\* A folder has been listed that has children which have children.
C13_Witness ==
  /\ Done(1, "list")
  /\ tasks[1].items # << >>
  /\ \E c \in Range(tasks[1].items), g \in store : g.parent = c.path
  /\ store = tasks[1].pre

\* C14: once bootstrap has run, the root and every default folder is in the
\* store, as a folder, in every state.
C14_DefaultFoldersStay ==
  booted =>
    \A i \in 1..Len(dirs) :
      Has(store, dirs[i][1]) /\ Get(store, dirs[i][1]).type = "folder"

\* C15: after rename(oldPath, newName) of a folder that has children has
\* resolved, the folder's record is at the new path and no longer at oldPath,
\* and every record that was under oldPath is still in the store as it was,
\* its path and parent naming the old folder path.
C15_RenameOrphansChildren ==
  \A t \in TaskIds :
    ( /\ Done(t, "rename")
      /\ Has(tasks[t].pre, tasks[t].call.path)
      /\ Get(tasks[t].pre, tasks[t].call.path).type = "folder"
      /\ List(tasks[t].pre, tasks[t].call.path) # << >> )
    => LET old == Get(tasks[t].pre, tasks[t].call.path)
       IN  /\ ~ Has(store, tasks[t].call.path)
           /\ tasks[t].result \in store
           /\ Subtree(tasks[t].pre, tasks[t].call.path) \ { old } \subseteq store

\* ' (n)'
SuffixN(n) == << " ", "(" >> \o NumStr(n) \o << ")" >>

\* The first n for which the source's name with ' (n)' before its extension
\* is free under the destination of copy call t.
FirstFreeSuffix(t) ==
  LET name == Get(tasks[t].pre, tasks[t].call.path).name
      free(n) == ~ Has(tasks[t].pre, PathJoin(tasks[t].call.dest, BeforeExt(name, SuffixN(n))))
  IN  CHOOSE n \in 1..(Cardinality(tasks[t].pre) + 1) :
        free(n) /\ \A m \in 1..(n - 1) : ~ free(m)

\* C16: a copy whose source name is taken under destParent is named with the
\* first of ' (1)', ' (2)', ... that makes the original name, suffixed before
\* its extension, free under destParent.
C16_FirstFreeCounter ==
  \A t \in TaskIds :
    CopyCollides(t) =>
      tasks[t].result.name =
        BeforeExt(Get(tasks[t].pre, tasks[t].call.path).name, SuffixN(FirstFreeSuffix(t)))

\* C17: while copy(src, destParent) runs and after it has settled, the
\* entries it has created are no more than the entries of src's subtree at
\* the time of the call.
C17_CopyBounded ==
  \A t \in TaskIds :
    ( tasks[t].call.op = "copy" /\ Has(tasks[t].pre, tasks[t].call.path) )
    => Cardinality(store \ tasks[t].pre)
         <= Cardinality(Subtree(tasks[t].pre, tasks[t].call.path))

\* C18: from the call of rename(oldPath, newName) on, whatever state the call
\* is in, the entry renamed is in the store at oldPath or at the new path
\* with the content it had; and when the call has rejected, the store is the
\* store of before the call.
C18_RenameKeepsEntry ==
  \A t \in TaskIds :
    ( tasks[t].call.op = "rename" /\ Has(tasks[t].pre, tasks[t].call.path) )
    => LET old == Get(tasks[t].pre, tasks[t].call.path)
           new == RenamePath(tasks[t].call.path, tasks[t].call.name)
       IN  /\ \/ old \in store
              \/ [old EXCEPT !.path = new, !.name = tasks[t].call.name] \in store
           /\ tasks[t].status = "failed" => store = tasks[t].pre

(***************************************************************************)
(* Specification: a move while another caller creates entries              *)
(***************************************************************************)

\* Calls made after bootstrap: the move and what the other caller creates.
MaxMoveOps == 3

InitMove ==
  /\ store = {}
  /\ recentFiles = << >>
  /\ booted = FALSE
  /\ tasks = [ t \in TaskIds |-> IdleTask ]
  /\ budget = MaxMoveOps
  /\ log = << >>
  /\ favorites = << >>
  /\ meta = EmptyMeta
  /\ saves = << >>
  /\ phase = "opening"

\* What is moved into /mnt: the folder Documents, the seed document, a path
\* without entry.  Where the other caller creates, and under what names.
DocumentsName == DirName(Documents)
MoveSrc == { Documents, readmePath, Documents \o Slash \o NameA }
CreateAt == { Mnt, Mnt \o Slash \o DocumentsName }
CreateNames == { DocumentsName, ReadmeName }

MoveSteps(t) ==
  \/ DeleteGet(t) \/ DeleteList(t) \/ DeleteDel(t)
  \/ CopyGet(t) \/ CopyProbe(t) \/ CopyAdd(t) \/ CopyList(t)

NextMove ==
  \/ Bootstrap
  \/ \E p \in MoveSrc : tasks[1].status = "idle" /\ Move(1, p, Mnt)
  \/ \E d \in CreateAt, n \in CreateNames : CreateFile(2, d, n, "")
  \/ \E n \in CreateNames : CreateFolder(2, Mnt, n)
  \/ \E t \in TaskIds : MoveSteps(t)

SpecMove == InitMove /\ [][NextMove]_vars

\* What the copy step of move call t returned, once it has.
MoveCopied(t) ==
  IF tasks[t].status = "done" THEN tasks[t].result
  ELSE IF tasks[t].stack # << >> /\ tasks[t].stack[Len(tasks[t].stack)].fn = "move"
  THEN tasks[t].stack[Len(tasks[t].stack)].newItem
  ELSE NoItem

\* The subtree move call t was given is at the destination: what the copy
\* step returned is in the store and is the source entry's copy, and every
\* entry of the source subtree has its like in the subtree below it.
MoveArrived(t) ==
  LET root == MoveCopied(t)
      src  == Get(tasks[t].pre, tasks[t].call.path)
      like(c, e) == c.type = e.type /\ c.content = e.content /\ c.size = e.size
  IN  /\ root # NoItem
      /\ root \in store
      /\ root.parent = tasks[t].call.dest
      /\ like(root, src)
      /\ \A e \in Subtree(tasks[t].pre, tasks[t].call.path) \ { src } :
           \E c \in Subtree(store, root.path) \ { root } : like(c, e)

\* C19: in every state of a move, the source subtree is in the store as it
\* was or it has arrived at the destination; a move whose copy step rejected
\* or found no source has deleted nothing.
C19_MoveCopiesThenDeletes ==
  \A t \in TaskIds :
    tasks[t].call.op = "move" =>
      /\ Has(tasks[t].pre, tasks[t].call.path) =>
           \/ Subtree(tasks[t].pre, tasks[t].call.path) \subseteq store
           \/ MoveArrived(t)
      /\ tasks[t].status = "failed" => tasks[t].pre \subseteq store
      /\ ~ Has(tasks[t].pre, tasks[t].call.path) => tasks[t].pre \subseteq store

\* Between the two steps of the move of a folder with a child: the copy has
\* returned, nothing of the source has been deleted yet.
C19_Witness ==
  /\ tasks[1].call.op = "move"
  /\ At(1, "delete", "get")
  /\ Len(tasks[1].stack) = 2
  /\ List(tasks[1].pre, tasks[1].call.path) # << >>
  /\ Subtree(tasks[1].pre, tasks[1].call.path) \subseteq store
  /\ MoveArrived(1)

(***************************************************************************)
(* Specification: deletes whose store requests may fail                    *)
(***************************************************************************)

\* Calls made after bootstrap.
MaxDeleteOps == 2

InitDelete ==
  /\ store = {}
  /\ recentFiles = << >>
  /\ booted = FALSE
  /\ tasks = [ t \in TaskIds |-> IdleTask ]
  /\ budget = MaxDeleteOps
  /\ log = << >>
  /\ favorites = << >>
  /\ meta = EmptyMeta
  /\ saves = << >>
  /\ phase = "opening"

\* What is deleted: folders of the seeded tree, down to the seed document.
DeletePaths == { Users, Admin, Documents, readmePath, Mnt }

NextDelete ==
  \/ Bootstrap
  \/ \E p \in { Documents, Mnt }, n \in Names : CreateFolder(1, p, n)
  \/ \E p \in { Documents, Mnt }, n \in Names : CreateFile(1, p, n, "")
  \/ \E p \in DeletePaths : Delete(1, p)
  \/ DeleteGet(1) \/ DeleteList(1) \/ DeleteDel(1) \/ DeleteDelFails(1)

SpecDelete == InitDelete /\ [][NextDelete]_vars

\* C20: in every state of a delete, finished, rejected or under way, a
\* folder of the subtree is gone only if everything that was listed under it
\* is gone: every entry of the subtree still in the store, other than the one
\* delete was called on, has its parent in the store.
C20_ChildrenFirst ==
  \A t \in TaskIds :
    tasks[t].call.op = "delete" =>
      \A e \in Subtree(tasks[t].pre, tasks[t].call.path) \cap store :
        e.path # tasks[t].call.path => Has(store, e.parent)

\* A delete of a folder has rejected on a failing request after it had
\* removed some of the subtree, with entries below the folder left.
C20_Witness ==
  /\ tasks[1].call.op = "delete"
  /\ tasks[1].status = "failed"
  /\ \E e \in Subtree(tasks[1].pre, tasks[1].call.path) : e \notin store
  /\ \E e \in Subtree(tasks[1].pre, tasks[1].call.path) \cap store :
       e.path # tasks[1].call.path

(***************************************************************************)
(* Specification: copies of nested folders                                 *)
(***************************************************************************)

\* Calls made after bootstrap.
MaxCopyOps == 2

InitCopy ==
  /\ store = {}
  /\ recentFiles = << >>
  /\ booted = FALSE
  /\ tasks = [ t \in TaskIds |-> IdleTask ]
  /\ budget = MaxCopyOps
  /\ log = << >>
  /\ favorites = << >>
  /\ meta = EmptyMeta
  /\ saves = << >>
  /\ phase = "opening"

\* The folders copied, from /Users down, and where they are pasted.
CopySrc == { Users, Admin, Documents, Mnt }
CopyDest == { Root, Mnt, System, Admin }

\* The current folder of a file manager window whose folder is no longer in
\* the store (deleted from another window, or reached through a favourite):
\* createFile takes it as parent all the same.
StalePath == Mnt \o Slash \o DirName(Documents)

NextCopy ==
  \/ Bootstrap
  \/ \E p \in { Documents, Mnt }, n \in Names : CreateFolder(1, p, n)
  \/ \E p \in { Documents, Mnt }, n \in Names, c \in Contents : CreateFile(1, p, n, c)
  \/ \E c \in Contents : CreateFile(1, StalePath, ReadmeName, c)
  \/ \E p \in CopySrc, d \in CopyDest : Copy(1, p, d)
  \/ CopyGet(1) \/ CopyProbe(1) \/ CopyAdd(1) \/ CopyList(1)

SpecCopy == InitCopy /\ [][NextCopy]_vars

\* The path of p relative to the path base it lies under.
RelPath(base, p) == SubSeq(p, Len(base) + 1, Len(p))

\* Copy call t is the copy of a folder to a place outside its subtree.
FolderCopy(t) ==
  /\ tasks[t].call.op = "copy"
  /\ Has(tasks[t].pre, tasks[t].call.path)
  /\ Get(tasks[t].pre, tasks[t].call.path).type = "folder"
  /\ tasks[t].call.dest \notin PathsOf(Subtree(tasks[t].pre, tasks[t].call.path))

\* C21: a copy of a folder to a place outside its subtree, once resolved,
\* has added one entry for each entry of the source subtree and nothing
\* else: at the same relative path under the new root, with the same type,
\* content and size, the same name (the root's may be suffixed) and the
\* parent at the same relative path; the entries of before are unchanged.
\* While it runs, every entry it has added other than the new root has its
\* parent among the entries it has added.
C21_CopyMirrors ==
  \A t \in TaskIds :
    FolderCopy(t) =>
      LET srcPath == tasks[t].call.path
          sub == Subtree(tasks[t].pre, srcPath)
          added == store \ tasks[t].pre
      IN  /\ \A c \in added :
               c.parent = tasks[t].call.dest \/ Has(added, c.parent)
          /\ tasks[t].pre \subseteq store
          /\ tasks[t].status = "done" =>
               LET root == tasks[t].result
               IN  /\ root \in added
                   /\ root.parent = tasks[t].call.dest
                   /\ Cardinality(added) = Cardinality(sub)
                   /\ \A e \in sub :
                        \E c \in added :
                          /\ c.path = root.path \o RelPath(srcPath, e.path)
                          /\ c.type = e.type /\ c.content = e.content /\ c.size = e.size
                          /\ e.path # srcPath =>
                               /\ c.name = e.name
                               /\ c.parent = root.path \o RelPath(srcPath, e.parent)

\* query occurs in name, letters compared without regard to case.
Matches(name, query) ==
  \E i \in 0..(Len(name) - Len(query)) :
    \A k \in 1..Len(query) : LowerChar(name[i + k]) = LowerChar(query[k])

\* The entries of s below the entries of acc in the parent relation, whatever
\* the type of the entry an entry names as its parent.
RECURSIVE BelowAny(_, _)
BelowAny(s, acc) ==
  LET more == { e \in s : \E f \in acc : e.parent = f.path }
  IN  IF more \subseteq acc THEN acc ELSE BelowAny(s, acc \cup more)

C23_UpdateAtomic ==
  \A t, u \in TaskIds :
    ( /\ t # u
      /\ Done(t, "updateFile")
      /\ tasks[u].call.path = tasks[t].call.path )
    => /\ Done(u, "delete") => ~ Has(store, tasks[t].call.path)
       /\ ( Done(u, "updateFile") /\ tasks[t].result # NoItem /\ tasks[u].result # NoItem )
            => Get(store, tasks[t].call.path).content = log[Len(log)].call.content

\* C24: when a createFile or createFolder in a folder ran while a delete of
\* that folder was under way (the delete was called before the entry was
\* created and resolved after it), then once both have resolved no entry of
\* the store has the deleted folder as its parent.
C24_DeleteCompleteInterleaved ==
  \A t, u \in TaskIds :
    ( /\ t # u
      /\ Done(t, "delete")
      /\ Has(tasks[t].pre, tasks[t].call.path)
      /\ Get(tasks[t].pre, tasks[t].call.path).type = "folder"
      /\ Done(u, "createFile") \/ Done(u, "createFolder")
      /\ tasks[u].call.dest = tasks[t].call.path
      /\ tasks[u].result \notin tasks[t].pre
      /\ log[Len(log)].call = tasks[t].call )
    => \A e \in store : e.parent # tasks[t].call.path

\* C25: the path a copy has computed is free when the copy inserts its
\* record, whatever calls interleave with it: while a copy waits to insert,
\* the path it has computed has no entry, and a copy whose source exists
\* never rejects.
C25_CopyNeverCollides ==
  \A t \in TaskIds :
    ( tasks[t].call.op = "copy" /\ Has(tasks[t].pre, tasks[t].call.path) )
    => /\ tasks[t].status # "failed"
       /\ At(t, "copy", "add") => ~ Has(store, Top(t).newPath)

(***************************************************************************)
(* Favourites and the recent list: memory and the object store 'meta'      *)
(***************************************************************************)

\* Set.prototype.add and Set.prototype.delete on a Set kept in insertion
\* order.
SetAdd(set, x) ==
  IF \E i \in 1..Len(set) : set[i] = x THEN set ELSE Append(set, x)
SetDelete(set, x) == SelectSeq(set, LAMBDA y : y # x)

\* Mutant of Enqueue: the newest put is applied first.
EnqueueFront(queue, key, value) == << [ key |-> key, value |-> value ] >> \o queue

\* _saveMeta(key, value): after await this._ready_() a readwrite
\* transaction on 'meta' is created and put({ key, value }) requested in it.
\* Nothing waits for the request; transactions on one object store are run
\* in the order they were created, which is the order of the calls.
Enqueue(queue, key, value) == Append(queue, [ key |-> key, value |-> value ])

\* A caller that holds the instance may start a call of the favourites or of
\* the recent list as soon as its previous one has returned.
MayMutate(t) == ~ Running(t) /\ budget > 0

\* addFav(path): the path joins the Set and [...this.favorites] is handed
\* to _saveMeta.
AddFav(t, path) ==
  /\ MayMutate(t)
  /\ favorites' = SetAdd(favorites, path)
  /\ saves' = Enqueue(saves, "favorites", SetAdd(favorites, path))
  /\ Settle(t, ReadTask(Call("addFav", path, << >>, << >>, "")))
  /\ budget' = budget - 1
  /\ UNCHANGED << store, recentFiles, booted, meta, phase >>

\* removeFav(path)
RemoveFav(t, path) ==
  /\ MayMutate(t)
  /\ favorites' = SetDelete(favorites, path)
  /\ saves' = Enqueue(saves, "favorites", SetDelete(favorites, path))
  /\ Settle(t, ReadTask(Call("removeFav", path, << >>, << >>, "")))
  /\ budget' = budget - 1
  /\ UNCHANGED << store, recentFiles, booted, meta, phase >>

\* addToRecent(item) with its put still to be applied.
AddToRecentQueued(t, item) ==
  /\ MayMutate(t)
  /\ recentFiles' = Recent(recentFiles, item)
  /\ saves' = Enqueue(saves, "recent", Recent(recentFiles, item))
  /\ Settle(t, [ReadTask(Call("addToRecent", item.path, << >>, << >>, ""))
                  EXCEPT !.result = item])
  /\ budget' = budget - 1
  /\ UNCHANGED << store, favorites, booted, meta, phase >>

\* The oldest put that was requested is applied to 'meta'.  A put requested
\* while the instance was loading waits for the transactions of the loads,
\* which were created before its own.
SaveMeta ==
  /\ phase = "ready"
  /\ saves # << >>
  /\ meta' = MetaPut(meta, Head(saves).key, Head(saves).value)
  /\ saves' = Tail(saves)
  /\ UNCHANGED << store, recentFiles, booted, tasks, budget, log, favorites, phase >>

\* Calls on the favourites and the recent list by the applications, which
\* get the instance once initializeFileSystem has resolved.
MaxMetaOps == 3

InitMeta ==
  /\ store = InitializeFileSystem({})
  /\ recentFiles = << >>
  /\ booted = TRUE
  /\ tasks = [ t \in TaskIds |-> IdleTask ]
  /\ budget = MaxMetaOps
  /\ log = << >>
  /\ favorites = << >>
  /\ meta = EmptyMeta
  /\ saves = << >>
  /\ phase = "ready"

\* The entries the file manager marks, opens, deletes, renames and moves.
FavPaths == { Documents, readmePath }

\* The store requests of delete, rename and move.
MetaSteps(t) ==
  \/ DeleteGet(t) \/ DeleteList(t) \/ DeleteDel(t)
  \/ CopyGet(t) \/ CopyProbe(t) \/ CopyAdd(t) \/ CopyList(t)
  \/ RenameGet(t) \/ RenameAdd(t)

NextMeta ==
  \/ \E p \in FavPaths : booted /\ AddFav(1, p)
  \/ \E p \in FavPaths : booted /\ RemoveFav(1, p)
  \/ \E f \in Files : booted /\ AddToRecentQueued(1, f)
  \/ SaveMeta
  \/ \E p \in FavPaths : Delete(1, p)
  \/ \E p \in FavPaths : Rename(1, p, NameA)
  \/ \E p \in FavPaths : Move(1, p, Mnt)
  \/ Reload
  \/ MetaSteps(1)

SpecMeta == InitMeta /\ [][NextMeta]_vars

\* The value read back under key: the record's value, or the empty index
\* when there is no record.
Persisted(key) == IF meta[key] = << >> THEN << >> ELSE meta[key][1]

\* The value 'meta' holds under key once the puts now requested have been
\* applied.
RECURSIVE LastPut(_, _)
LastPut(queue, key) ==
  IF queue = << >> THEN Persisted(key)
  ELSE IF queue[Len(queue)].key = key THEN queue[Len(queue)].value
       ELSE LastPut(SubSeq(queue, 1, Len(queue) - 1), key)

\* C26: once the instance has loaded, the value that 'meta' holds after the
\* puts in flight have been applied is the favourites Set in memory, and the
\* same for the recent list: every call hands over the whole index as it is
\* after its own change and the puts are applied in the order of the calls.
\* With no put in flight the persisted value is the one in memory.
C26_PersistedIsMemory ==
  phase = "ready" =>
    /\ LastPut(saves, "favorites") = favorites
    /\ LastPut(saves, "recent") = recentFiles
    /\ saves = << >> => /\ Persisted("favorites") = favorites
                        /\ Persisted("recent") = recentFiles

\* Three calls have been made on the favourites, their puts have been
\* applied and the record holds the Set as it is in memory.
C26_Witness ==
  /\ phase = "ready"
  /\ saves = << >>
  /\ Cardinality({ i \in 1..Len(log) : log[i].call.op \in { "addFav", "removeFav" } }) = 3
  /\ favorites # << >>
  /\ meta.favorites = << favorites >>

(***************************************************************************)
(* Specification: calls on an instance that is still loading               *)
(***************************************************************************)

\* indexedDB.open succeeds: this.db is set and the two loads are started.
OpenDb ==
  /\ phase = "opening"
  /\ phase' = "loadFavorites"
  /\ UNCHANGED << store, recentFiles, booted, tasks, budget, log, favorites, meta, saves >>

\* The get of _loadFavorites succeeds.
LoadFavoritesDone ==
  /\ phase = "loadFavorites"
  /\ favorites' = LoadFavorites(meta, favorites)
  /\ phase' = "loadRecent"
  /\ UNCHANGED << store, recentFiles, booted, tasks, budget, log, meta, saves >>

\* The get of _loadRecent succeeds, and with it this._ready resolves.
LoadRecentDone ==
  /\ phase = "loadRecent"
  /\ recentFiles' = LoadRecent(meta, recentFiles)
  /\ phase' = "ready"
  /\ UNCHANGED << store, booted, tasks, budget, log, favorites, meta, saves >>

\* What an earlier page may have left under 'favorites' and 'recent'.
OldFile == NewFile(Documents, NameA, "")
OldMetas ==
  { [ favorites |-> f, recent |-> r ] :
      f \in { << >>, << << Documents >> >> },
      r \in { << >>, << << OldFile >> >> } }

\* Calls on the favourites and the recent list of a new instance.
MaxEarlyOps == 2

InitEarly ==
  /\ store = StoreAdd(InitializeFileSystem({}), OldFile)
  /\ recentFiles = << >>
  /\ booted = FALSE
  /\ tasks = [ t \in TaskIds |-> IdleTask ]
  /\ budget = MaxEarlyOps
  /\ log = << >>
  /\ favorites = << >>
  /\ meta \in OldMetas
  /\ saves = << >>
  /\ phase = "opening"

NextEarly ==
  \/ OpenDb
  \/ LoadFavoritesDone
  \/ LoadRecentDone
  \/ \E p \in { Mnt, Documents } : AddFav(1, p)
  \/ AddToRecentQueued(1, ReadmeEntry)
  \/ SaveMeta

SpecEarly == InitEarly /\ [][NextEarly]_vars

\* The paths of a recent list.
RecentPaths(list) == { list[i].path : i \in 1..Len(list) }

\* C27: on an instance that has loaded, whatever was called before or
\* after the load, each put still to be applied carries everything its
\* record holds now; and once the puts have been applied the index in memory
\* is the persisted one and holds every path that was added.
C27_EarlyMutationKept ==
  phase = "ready" =>
    /\ \A i \in 1..Len(saves) :
         IF saves[i].key = "favorites"
         THEN Range(Persisted("favorites")) \subseteq Range(saves[i].value)
         ELSE RecentPaths(Persisted("recent")) \subseteq RecentPaths(saves[i].value)
    /\ saves = << >> =>
         /\ Persisted("favorites") = favorites
         /\ Persisted("recent") = recentFiles
         /\ \A i \in 1..Len(log) :
              /\ log[i].call.op = "addFav" => log[i].call.path \in Range(favorites)
              /\ log[i].call.op = "addToRecent" =>
                   log[i].call.path \in RecentPaths(recentFiles)

\* C28: when delete(p), rename(p, n) or move(p, d) has resolved for an entry
\* p that existed at the call and is gone now, p is neither among the
\* favourites nor in the recent list.
C28_NoStaleReference ==
  \A t \in TaskIds :
    (/\ Done(t, "delete") \/ Done(t, "rename") \/ Done(t, "move")
     /\ Has(tasks[t].pre, tasks[t].call.path)
     /\ ~ Has(store, tasks[t].call.path))
    => /\ tasks[t].call.path \notin Range(favorites)
       /\ tasks[t].call.path \notin RecentPaths(recentFiles)

\* The part of path after its last '/'.
LastSegment(path) ==
  LET k == CHOOSE i \in 1..Len(path) :
              path[i] = "/" /\ \A j \in (i + 1)..Len(path) : path[j] # "/"
  IN  SubSeq(path, k + 1, Len(path))

\* C29: every entry but the root has the last segment of its path as its
\* name, and its path is its parent's, a '/' and its name ('/' and its name
\* under the root); so its path is longer than its parent's and no entry is
\* among its own ancestors.
C29_PathOfParentAndName ==
  \A e \in store :
    e.path # Root =>
      /\ \E i \in 1..Len(e.path) : e.path[i] = "/"
      /\ e.name = LastSegment(e.path)
      /\ e.path = (IF e.parent = Root THEN << "/" >> \o e.name
                   ELSE e.parent \o << "/" >> \o e.name)
      /\ Len(e.path) > Len(e.parent)

\* A copy and then a rename have resolved, and the renamed entry, which the
\* bootstrap did not create, is in the store.
C29_Witness ==
  /\ Done(1, "rename")
  /\ tasks[1].result # NoItem
  /\ tasks[1].result \in store
  /\ tasks[1].result.path \notin BootPaths
  /\ \E i \in 1..Len(log) : log[i].call.op = "copy" /\ log[i].status = "done"

(***************************************************************************)
(* Specification: the reading calls                                        *)
(***************************************************************************)

\* zf.file(it.name, it.content || '') and zf.folder(it.name) in the zip
\* folder whose path is prefix.
ZipFile(prefix, it) ==
  [ name |-> prefix \o it.name, dir |-> FALSE,
    content |-> IF it.content = Undefined THEN "" ELSE it.content ]
ZipFolder(prefix, it) ==
  [ name |-> prefix \o it.name \o Slash, dir |-> TRUE, content |-> "" ]

\* exportZip's add(p, zf), and its loop over a listing.
RECURSIVE ZipAdd(_, _, _)
RECURSIVE ZipAddAll(_, _, _, _)
ZipAddAll(s, ch, i, prefix) ==
  IF i > Len(ch) THEN << >>
  ELSE ZipAdd(s, ch[i].path, prefix) \o ZipAddAll(s, ch, i + 1, prefix)
ZipAdd(s, p, prefix) ==
  LET it == Get(s, p)
  IN  IF it.type = "file" THEN << ZipFile(prefix, it) >>
      ELSE << ZipFolder(prefix, it) >>
             \o ZipAddAll(s, List(s, p), 1, ZipFolder(prefix, it).name)

\* exportZip(path): the entries of the zip that is saved; a folder's
\* children go to the top of the zip, a file is the zip's only entry.
ExportZip(s, path) ==
  LET item == Get(s, path)
  IN  IF item = NoItem THEN << >>
      ELSE IF item.type = "folder" THEN ZipAddAll(s, List(s, path), 1, << >>)
      ELSE << ZipFile(<< >>, item) >>

\* Mutant of ExportZipOp: the exported entry is pushed onto the recent list.
ExportZipOpRecent(t, path) ==
  /\ CanCall(t)
  /\ Settle(t, [ReadTask(Call("exportZip", path, << >>, << >>, "")) EXCEPT
                  !.items = ExportZip(store, path),
                  !.value = IF Has(store, path) THEN 1 ELSE 0])
  /\ budget' = budget - 1
  /\ recentFiles' = IF Has(store, path) THEN Recent(recentFiles, Get(store, path))
                    ELSE recentFiles
  /\ UNCHANGED << store, booted, favorites, meta, saves, phase >>

\* exportZip(path); value is 1 when saveAs has been called.
ExportZipOp(t, path) ==
  /\ CanCall(t)
  /\ Settle(t, [ReadTask(Call("exportZip", path, << >>, << >>, "")) EXCEPT
                  !.items = ExportZip(store, path),
                  !.value = IF Has(store, path) THEN 1 ELSE 0])
  /\ budget' = budget - 1
  /\ UNCHANGED << store, recentFiles, booted, favorites, meta, saves, phase >>

\* Calls of the file manager that mark, create and read.
MaxReadOps == 3

InitRead ==
  /\ store = InitializeFileSystem({})
  /\ recentFiles = << >>
  /\ booted = TRUE
  /\ tasks = [ t \in TaskIds |-> IdleTask ]
  /\ budget = MaxReadOps
  /\ log = << >>
  /\ favorites = << >>
  /\ meta = EmptyMeta
  /\ saves = << >>
  /\ phase = "ready"

\* The paths read: folders, a file, and a path that has no entry.
MissingPath == PathJoin(Mnt, NameA)
ReadPaths == { Users, Documents, readmePath, MissingPath }
ReadOps == { "list", "get", "search", "dirSize", "exportZip" }

NextRead ==
  \/ \E p \in FavPaths : booted /\ AddFav(1, p)
  \/ \E c \in Contents : CreateFile(1, Documents, NameA, c)
  \/ SaveMeta
  \/ \E p \in ReadPaths : ListOp(1, p)
  \/ \E p \in ReadPaths : GetOp(1, p)
  \/ \E p \in ReadPaths, q \in Queries : SearchOp(1, q, p)
  \/ \E p \in ReadPaths : DirSizeOp(1, p)
  \/ \E p \in ReadPaths : ExportZipOp(1, p)

SpecRead == InitRead /\ [][NextRead]_vars

\* C30: a step in which list, get, search, dirSize or exportZip settles
\* leaves the records of the store, the favourites and the recent list (and
\* what is persisted of them) as they were, whether its path has an entry or
\* not.
C30_ReadOnly ==
  [][ (/\ Len(log') > Len(log)
       /\ log'[Len(log')].call.op \in ReadOps)
      => /\ store' = store
         /\ favorites' = favorites
         /\ recentFiles' = recentFiles
         /\ meta' = meta ]_vars

\* exportZip of a folder has saved a zip with a file in a folder, while
\* there are favourites and recent files.
C30_Witness ==
  /\ Done(1, "exportZip")
  /\ \E i \in 1..Len(tasks[1].items) : ~ tasks[1].items[i].dir
  /\ \E i \in 1..Len(tasks[1].items) : tasks[1].items[i].dir
  /\ favorites # << >>
  /\ recentFiles # << >>

====
